---- MODULE Spec2Model ----
(***************************************************************************)
(* Model of cidrmerge (src/main.rs): a binary trie over address bits with  *)
(* cached per-node statistics, a cached cheapest merge candidate, and the  *)
(* greedy reduction loop of main().                                        *)
(*                                                                         *)
(* The address width (32 in the source) is the bound AddrBits.  Coverage   *)
(* is an f64 in the source; every value it takes is a dyadic rational with *)
(* denominator at most 2^32, so the f64 arithmetic is exact.  The model    *)
(* keeps coverage as the integer numerator over the denominator One, i.e.  *)
(* coverage 1.0 is One and coverage c is c / One.                          *)
(*                                                                         *)
(* Cidr::parse and Cidr::to_pretty_string are modelled at the source's     *)
(* width, four groups of eight bits, on texts given by their numerals.     *)
(***************************************************************************)
EXTENDS Integers, Sequences, FiniteSets, TLC

\* Width of an address in bits (32 in the source), scaled down.
AddrBits == 3

\* Largest target bound of the reduction loop that is explored (40 in main).
MaxT == 2

\* The iteration counter of the reduction loop saturates here.
MaxIters == 16

\* Bits per dotted group: the shifts [7, 6, 5, 4, 3, 2, 1, 0] of get_bits.
OctetBits == 8

\* Groups of a rendered prefix: vec![0, 0, 0, 0] in to_pretty_string.
Groups == 4

\* f64 1.0, as a numerator over the common denominator 2^AddrBits.
One == 2 ^ AddrBits

\* Option<T>: None is the empty tuple, Some(x) the one-element tuple.
None == << >>
Some(x) == << x >>
is_some(o) == Len(o) = 1

\* Statement sequencing `v; f(v)`: v is evaluated once, then f is applied to
\* its value.
then(v, f(_)) == CHOOSE r \in {f(x) : x \in {v}} : TRUE

\* [self.left.as_ref(), self.right.as_ref()].iter().flatten()
flatten(opts) ==
  LET RECURSIVE go(_)
      go(i) == IF i > Len(opts) THEN << >> ELSE opts[i] \o go(i + 1)
  IN go(1)

\* All bit sequences of length 0..AddrBits: the prefixes Cidr::parse can return.
Bit == {FALSE, TRUE}
Cidrs == UNION {[1..n -> Bit] : n \in 0..AddrBits}

\* Cidr::size
size(cidr) == Len(cidr)

\* Cidr::push
push(cidr, b) == Append(cidr, b)

(***************************************************************************)
(* Text and parsing.  A line "g1.g2. ... .gk/n" is the record of its       *)
(* decimal groups and of its length field; size is None when the line has  *)
(* no '/'.  A numeral is given by its value: `parse::<i16>` and            *)
(* `parse::<usize>` fail exactly on the values outside their type.  A      *)
(* panic (a failed unwrap, an index out of bounds) is the result None.     *)
(***************************************************************************)

\* str::parse::<i16>() succeeds.
parses_i16(g) == g >= -(2 ^ 15) /\ g <= 2 ^ 15 - 1

\* str::parse::<usize>() succeeds (values above the explored range excluded).
parses_usize(n) == n >= 0

\* `g & (1 << b) > 0` on an i16 in two's complement.
bit_set(g, b) == ((g % (2 ^ 16)) \div (2 ^ b)) % 2 = 1

\* Variant of group_bits: the shifts run 0 up to 7 (least significant first).
group_bits_LsbFirst(g) == [k \in 1..OctetBits |-> bit_set(g, k - 1)]

\* The closure of flat_map: the bits of one group, shifts 7 down to 0.
group_bits(g) == [k \in 1..OctetBits |-> bit_set(g, OctetBits - k)]

\* Iterator::take on a sequence.
take(s, n) == SubSeq(s, 1, IF n < Len(s) THEN n ELSE Len(s))

\* The groups the lazy flat_map is asked for before take(size) is satisfied.
pulled(groups, sz) ==
  LET want == (sz + OctetBits - 1) \div OctetBits
  IN take(groups, want)

\* Variant of get_bits: no take(size), every bit of every group is kept.
get_bits_NoTake(groups, sz) ==
  LET RECURSIVE cat(_)
      cat(i) == IF i > Len(groups) THEN << >> ELSE group_bits(groups[i]) \o cat(i + 1)
  IN IF \E i \in 1..Len(groups) : ~parses_i16(groups[i])
     THEN None
     ELSE Some(cat(1))

\* Cidr::get_bits
get_bits(groups, sz) ==
  LET used == pulled(groups, sz)
      RECURSIVE cat(_)
      cat(i) == IF i > Len(used) THEN << >> ELSE group_bits(used[i]) \o cat(i + 1)
  IN IF \E i \in 1..Len(used) : ~parses_i16(used[i])
     THEN None
     ELSE Some(take(cat(1), sz))

\* Cidr::parse
parse(ln) ==
  IF ~is_some(ln.size) THEN None
  ELSE IF ~parses_usize(ln.size[1]) THEN None
  ELSE get_bits(ln.groups, ln.size[1])

\* Cidr::to_pretty_string: the text "g1.g2.g3.g4/len" as a line; None when a
\* set bit indexes past the four groups.
to_pretty_string(bits) ==
  LET group(j) ==
        LET RECURSIVE acc(_)
            acc(i) ==
              IF i > Len(bits) THEN 0
              ELSE (IF bits[i] /\ (i - 1) \div OctetBits = j
                    THEN 2 ^ ((OctetBits - 1) - ((i - 1) % OctetBits)) ELSE 0)
                   + acc(i + 1)
        IN acc(1)
  IN IF \E i \in 1..Len(bits) : bits[i] /\ (i - 1) \div OctetBits >= Groups
     THEN None
     ELSE Some([groups |-> [j \in 1..Groups |-> group(j - 1)],
                size |-> Some(Len(bits))])

\* Tree::new_node
new_node(cidr) ==
  [cidr |-> cidr, present |-> FALSE, cidr_count |-> 0, node_count |-> 1,
   coverage |-> 0, left |-> None, right |-> None, best_coverage |-> None]

\* Tree::new: the root for "0.0.0.0/0", whose bit sequence is empty.
new == new_node(<< >>)

\* Variant of make_present: the children are kept.
make_present_KeepChildren(t) == [t EXCEPT !.present = TRUE]

\* Tree::make_present
make_present(t) == [t EXCEPT !.present = TRUE, !.left = None, !.right = None]

\* Variant of optimize: children are never merged into their parent.
optimize_Never(t) == t

\* Variant of optimize: an absent child counts as finalized (unwrap_or(true)).
optimize_AbsentCounts(t) ==
  LET all_childs_present ==
        \A o \in {t.left, t.right} : IF is_some(o) THEN o[1].present ELSE TRUE
  IN IF all_childs_present THEN make_present(t) ELSE t

\* Tree::optimize
optimize(t) ==
  LET all_childs_present ==
        \A o \in {t.left, t.right} : IF is_some(o) THEN o[1].present ELSE FALSE
  IN IF all_childs_present THEN make_present(t) ELSE t

\* Sum of a sequence of numbers.
RECURSIVE sum(_)
sum(s) == IF s = << >> THEN 0 ELSE Head(s) + sum(Tail(s))

\* The sequence f(s[1]), f(s[2]), ...
map(f(_), s) == [i \in 1..Len(s) |-> f(s[i])]

\* Variant of update_coverage: the children's sum is not halved.
update_coverage_NoHalf(t) ==
  LET cov(c) == c.coverage
      childs == sum(map(cov, flatten(<< t.left, t.right >>)))
  IN [t EXCEPT !.coverage = IF t.present THEN One ELSE childs]

\* Variant of update_coverage: the mean over the children that exist.
update_coverage_Mean(t) ==
  LET cov(c) == c.coverage
      kids == flatten(<< t.left, t.right >>)
      childs == sum(map(cov, kids))
  IN [t EXCEPT !.coverage = IF t.present THEN One
                            ELSE IF kids = << >> THEN 0 ELSE childs \div Len(kids)]

\* Tree::update_coverage
update_coverage(t) ==
  LET cov(c) == c.coverage
      childs == sum(map(cov, flatten(<< t.left, t.right >>)))
  IN [t EXCEPT !.coverage = IF t.present THEN One ELSE childs \div 2]

\* Variant of update_node_count: the node does not count itself.
update_node_count_NoSelf(t) ==
  LET cnt(c) == c.node_count
      childs == sum(map(cnt, flatten(<< t.left, t.right >>)))
  IN [t EXCEPT !.node_count = childs]

\* Tree::update_node_count
update_node_count(t) ==
  LET cnt(c) == c.node_count
      childs == sum(map(cnt, flatten(<< t.left, t.right >>)))
  IN [t EXCEPT !.node_count = 1 + childs]

\* Variant of update_cidr_count: a finalized node reports its node_count.
update_cidr_count_NodeCount(t) ==
  LET cnt(c) == c.cidr_count
      childs == sum(map(cnt, flatten(<< t.left, t.right >>)))
  IN [t EXCEPT !.cidr_count = IF t.present THEN t.node_count ELSE childs]

\* Variant of update_cidr_count: a non-finalized node counts itself too.
update_cidr_count_PlusSelf(t) ==
  LET cnt(c) == c.cidr_count
      childs == sum(map(cnt, flatten(<< t.left, t.right >>)))
  IN [t EXCEPT !.cidr_count = IF t.present THEN 1 ELSE 1 + childs]

\* Tree::update_cidr_count
update_cidr_count(t) ==
  LET cnt(c) == c.cidr_count
      childs == sum(map(cnt, flatten(<< t.left, t.right >>)))
  IN [t EXCEPT !.cidr_count = IF t.present THEN 1 ELSE childs]

\* The closure `score` of update_best_coverage: 2^(32 - s) * (1.0 - f), in
\* units of 1 / One.
score(s, f) == (2 ^ (AddrBits - s)) * (One - f)

\* Variant of compare: Less also on equal scores (the earlier of two equal
\* candidates wins).
compare_FirstWins(a, b) ==
  IF score(size(a[3]), a[1]) <= score(size(b[3]), b[1]) THEN "Less" ELSE "Greater"

\* The comparator passed to min_by: Less when a scores strictly lower,
\* Greater otherwise (never Equal).
compare(a, b) ==
  IF score(size(a[3]), a[1]) < score(size(b[3]), b[1]) THEN "Less" ELSE "Greater"

\* Iterator::min_by: a left fold that keeps the accumulator unless the
\* comparator answers Greater; None on an empty sequence.
min_by(cands) ==
  LET RECURSIVE fold(_, _)
      fold(acc, i) ==
        IF i > Len(cands) THEN acc
        ELSE fold(IF compare(acc, cands[i]) = "Greater" THEN cands[i] ELSE acc, i + 1)
  IN IF cands = << >> THEN None ELSE Some(fold(cands[1], 2))

\* Variant of update_best_coverage: the node itself is not a candidate.
update_best_coverage_NoSelf(t) ==
  IF t.present THEN [t EXCEPT !.best_coverage = None]
  ELSE
    LET left == IF is_some(t.left) THEN t.left[1].best_coverage ELSE None
        right == IF is_some(t.right) THEN t.right[1].best_coverage ELSE None
        candidates == flatten(<< left, right >>)
    IN [t EXCEPT !.best_coverage = min_by(candidates)]

\* Variant of update_best_coverage: a finalized node keeps its cached value.
update_best_coverage_KeepStale(t) ==
  IF t.present THEN t
  ELSE
    LET me == Some(<< t.coverage, t.cidr_count, t.cidr >>)
        left == IF is_some(t.left) THEN t.left[1].best_coverage ELSE None
        right == IF is_some(t.right) THEN t.right[1].best_coverage ELSE None
        candidates == flatten(<< me, left, right >>)
    IN [t EXCEPT !.best_coverage = min_by(candidates)]

\* Variant of update_best_coverage: the right child's candidate is ignored.
update_best_coverage_NoRight(t) ==
  IF t.present THEN [t EXCEPT !.best_coverage = None]
  ELSE
    LET me == Some(<< t.coverage, t.cidr_count, t.cidr >>)
        left == IF is_some(t.left) THEN t.left[1].best_coverage ELSE None
        candidates == flatten(<< me, left >>)
    IN [t EXCEPT !.best_coverage = min_by(candidates)]

\* Tree::update_best_coverage
update_best_coverage(t) ==
  IF t.present THEN [t EXCEPT !.best_coverage = None]
  ELSE
    LET me == Some(<< t.coverage, t.cidr_count, t.cidr >>)
        left == IF is_some(t.left) THEN t.left[1].best_coverage ELSE None
        right == IF is_some(t.right) THEN t.right[1].best_coverage ELSE None
        candidates == flatten(<< me, left, right >>)
    IN [t EXCEPT !.best_coverage = min_by(candidates)]

RECURSIVE insert_bits(_, _)

\* Variant of insert_bits: no early return at a finalized node.
insert_bits_NoEarlyReturn(t, bits) ==
  LET stepped ==
        IF bits # << >>
        THEN LET bit == Head(bits)
                 next == push(t.cidr, bit)
                 opt_child == IF bit THEN t.right ELSE t.left
                 child == IF is_some(opt_child) THEN opt_child[1] ELSE new_node(next)
                 done == Some(insert_bits(child, Tail(bits)))
             IN IF bit THEN [t EXCEPT !.right = done] ELSE [t EXCEPT !.left = done]
        ELSE make_present(t)
  IN then(then(then(then(then(stepped,
       optimize), update_cidr_count), update_node_count), update_coverage),
       update_best_coverage)

\* Tree::insert_bits
insert_bits(t, bits) ==
  IF t.present THEN t
  ELSE
    LET stepped ==
          IF bits # << >>
          THEN LET bit == Head(bits)
                   next == push(t.cidr, bit)
                   opt_child == IF bit THEN t.right ELSE t.left
                   child == IF is_some(opt_child) THEN opt_child[1] ELSE new_node(next)
                   done == Some(insert_bits(child, Tail(bits)))
               IN IF bit THEN [t EXCEPT !.right = done] ELSE [t EXCEPT !.left = done]
          ELSE make_present(t)
    IN then(then(then(then(then(stepped,
         optimize), update_cidr_count), update_node_count), update_coverage),
         update_best_coverage)

\* Variant of insert: the slice stops one bit short (bits[..size - 1]).
insert_DropLast(t, cidr) == insert_bits(t, SubSeq(cidr, 1, size(cidr) - 1))

\* Tree::insert
insert(t, cidr) == insert_bits(t, SubSeq(cidr, 1, size(cidr)))

\* Tree::nodes, Tree::cidrs, Tree::coverage, Tree::best_coverage
nodes(t) == t.node_count
cidrs(t) == t.cidr_count
coverage(t) == t.coverage
best_coverage(t) == t.best_coverage

(***************************************************************************)
(* Views of a tree used to state properties.                               *)
(***************************************************************************)

\* Every node of the subtree rooted at t, t included.
RECURSIVE Nodes(_)
Nodes(t) ==
  {t} \cup (IF is_some(t.left) THEN Nodes(t.left[1]) ELSE {})
      \cup (IF is_some(t.right) THEN Nodes(t.right[1]) ELSE {})

\* The finalized nodes of the subtree rooted at t.
Finalized(t) == {n \in Nodes(t) : n.present}

\* Whether bit sequence p is a prefix of (or equal to) bit sequence q.
IsPrefix(p, q) == Len(p) <= Len(q) /\ SubSeq(q, 1, Len(p)) = p

\* The full-length addresses, and those inside the block of a prefix.
Addrs == [1..AddrBits -> Bit]
Range(cidr) == {a \in Addrs : IsPrefix(cidr, a)}

\* Tree::print: the prefixes of the finalized nodes, parent before children,
\* left before right.
RECURSIVE print(_)
print(t) ==
  (IF t.present THEN << t.cidr >> ELSE << >>)
    \o (IF is_some(t.left) THEN print(t.left[1]) ELSE << >>)
    \o (IF is_some(t.right) THEN print(t.right[1]) ELSE << >>)

(***************************************************************************)
(* main(): read every line into the tree, then run the reduction loop.     *)
(***************************************************************************)
VARIABLES
  tree,       \* main's `tree`
  pc,         \* main's position: "read" (the stdin loop), "loop", "done"
  T,          \* the loop's target bound (the literal 40 of main); it is first
              \* read when control reaches the `while`, and is fixed from there
  n0,         \* tree.cidrs() when the reduction loop was entered
  iters,      \* iterations of the reduction loop performed so far (saturating)
  requested,  \* history: the addresses inside some prefix passed to insert
  line,       \* the text handed to Cidr::parse
  stage,      \* how far that text has been converted ("idle": none is)
  parsed,     \* the bits of the Cidr that parse returned
  pretty      \* the text that to_pretty_string returned

vars == << tree, pc, T, n0, iters, requested, line, stage, parsed, pretty >>

text == << line, stage, parsed, pretty >>

trie == << tree, pc, T, n0, iters, requested >>

\* The text before anything was read.
no_line == [groups |-> << >>, size |-> None]

Init ==
  /\ tree = new
  /\ pc = "read"
  /\ T = 0
  /\ n0 = 0
  /\ iters = 0
  /\ requested = {}
  /\ line = no_line
  /\ stage = "idle"
  /\ parsed = << >>
  /\ pretty = no_line

\* One pass of `for line in stdin.lock().lines()`: parse and insert.
ReadLine ==
  /\ pc = "read"
  /\ \E cidr \in Cidrs :
       /\ tree' = insert(tree, cidr)
       /\ requested' = requested \cup Range(cidr)
  /\ UNCHANGED << pc, T, n0, iters, text >>

\* End of input: control reaches the `while` and its bound.
EndOfInput ==
  /\ pc = "read"
  /\ pc' = "loop"
  /\ T' \in 0..MaxT
  /\ n0' = cidrs(tree)
  /\ UNCHANGED << tree, iters, requested, text >>

\* One iteration of `while tree.cidrs() > 40 { ... }`.
LoopIter ==
  /\ pc = "loop"
  /\ cidrs(tree) > T
  /\ LET best == best_coverage(tree)
     IN IF is_some(best)
        THEN /\ tree' = insert(tree, best[1][3])
             /\ requested' = requested \cup Range(best[1][3])
        ELSE UNCHANGED << tree, requested >>
  /\ iters' = IF iters < MaxIters THEN iters + 1 ELSE iters
  /\ UNCHANGED << pc, T, n0, text >>

\* The `while` condition fails: fall through to the summary.
LoopExit ==
  /\ pc = "loop"
  /\ ~(cidrs(tree) > T)
  /\ pc' = "done"
  /\ UNCHANGED << tree, T, n0, iters, requested, text >>

Next == ReadLine \/ EndOfInput \/ LoopIter \/ LoopExit

Spec == Init /\ [][Next]_vars

\* main runs sequentially: once in the loop, the next step is always taken.
FairSpec == Spec /\ WF_vars(LoopIter) /\ WF_vars(LoopExit)

\* The trees reachable by Tree::insert calls alone.
InsertSpec == Init /\ [][ReadLine]_vars

\* A fresh tree fed every sequence of prefixes: every order, repeats included.
SequenceSpec == Init /\ [][ReadLine]_vars

(***************************************************************************)
(* Cidr::parse and Cidr::to_pretty_string as steps on one text: parse,     *)
(* render, then parse and render the rendered text again                   *)
(* (tests::cidr_parse, and print_tree on what main parsed).                *)
(***************************************************************************)

\* Octet values explored in prefixes that are well formed.
OctetValues == {0, 1, 85, 170, 255}

\* Group values explored otherwise: octets, and values no octet has (the last
\* is outside i16).
GroupValues == {1, 255, 256, -1, 2 ^ 15}

\* Length fields explored otherwise; None is a line without '/'.
SizeValues ==
  {Some(0), Some(OctetBits), Some(OctetBits + 1), Some(Groups * OctetBits),
   Some(Groups * OctetBits + 1), Some((Groups + 1) * OctetBits), Some(-1), None}

\* Four octets and a length in range: the lines that denote a prefix.
WellFormed(ln) ==
  /\ Len(ln.groups) = Groups
  /\ \A i \in 1..Len(ln.groups) : ln.groups[i] \in 0..(2 ^ OctetBits - 1)
  /\ is_some(ln.size)
  /\ ln.size[1] \in 0..(Groups * OctetBits)

Lines ==
  {[groups |-> g, size |-> Some(n)] :
     g \in [1..Groups -> OctetValues], n \in 0..(Groups * OctetBits)}
    \cup
  {[groups |-> g, size |-> z] :
     g \in UNION {[1..k -> GroupValues] : k \in (Groups - 1)..(Groups + 1)},
     z \in SizeValues}

ParseInit ==
  /\ tree = new
  /\ pc = "read"
  /\ T = 0
  /\ n0 = 0
  /\ iters = 0
  /\ requested = {}
  /\ line \in Lines
  /\ stage = "text"
  /\ parsed = << >>
  /\ pretty = no_line

\* Cidr::parse(&s)
DoParse ==
  /\ stage = "text"
  /\ LET r == parse(line)
     IN IF is_some(r)
        THEN parsed' = r[1] /\ stage' = "parsed"
        ELSE parsed' = parsed /\ stage' = "parse_panicked"
  /\ UNCHANGED << line, pretty, trie >>

\* cidr.to_pretty_string()
DoPretty ==
  /\ stage = "parsed"
  /\ LET r == to_pretty_string(parsed)
     IN IF is_some(r)
        THEN pretty' = r[1] /\ stage' = "printed"
        ELSE pretty' = pretty /\ stage' = "print_panicked"
  /\ UNCHANGED << line, parsed, trie >>

\* Cidr::parse(&text).to_pretty_string() on the rendered text.
DoReparse ==
  /\ stage = "printed"
  /\ LET r == parse(pretty)
         q == IF is_some(r) THEN to_pretty_string(r[1]) ELSE None
     IN IF is_some(q)
        THEN parsed' = r[1] /\ pretty' = q[1] /\ stage' = "reprinted"
        ELSE UNCHANGED << parsed, pretty >> /\ stage' = "reparse_panicked"
  /\ UNCHANGED << line, trie >>

ParseNext == DoParse \/ DoPretty \/ DoReparse

ParseSpec == ParseInit /\ [][ParseNext]_vars

(***************************************************************************)
(* Properties of the reduction loop.                                       *)
(***************************************************************************)

\* C1: for every target bound T >= 1 the reduction loop, once entered,
\* terminates, and when it has terminated the root's cidr_count is <= T.
C1_Convergence ==
  (pc = "loop" /\ T >= 1) ~> (pc = "done" /\ cidrs(tree) <= T)

\* A run that entered the loop above the bound, iterated and left it.
C1_Witness ==
  pc = "done" /\ T >= 1 /\ n0 > T /\ iters >= 2 /\ cidrs(tree) <= T

\* C2: every iteration of the reduction loop (T >= 1, the candidate present)
\* lowers the root's cidr_count by at least 1.
C2_StrictDecrease ==
  [][(pc = "loop" /\ pc' = "loop" /\ T >= 1 /\ is_some(best_coverage(tree)))
       => cidrs(tree') <= cidrs(tree) - 1]_vars

\* C3: entered with a root cidr_count of N, the reduction loop (T >= 1)
\* performs at most N - 1 iterations (none when N = 0).
C3_IterationBound ==
  (pc \in {"loop", "done"} /\ T >= 1)
    => iters <= (IF n0 >= 1 THEN n0 - 1 ELSE 0)

\* C4: across iterations of the reduction loop the root's cidr_count never
\* increases.
C4_NonIncreasing ==
  [][(pc = "loop" /\ pc' = "loop") => cidrs(tree') <= cidrs(tree)]_vars

\* The loop has iterated and the count is below what it was on entry.
C4_Witness ==
  pc = "loop" /\ iters >= 1 /\ cidrs(tree) < n0 /\ cidrs(tree) > T

(***************************************************************************)
(* Properties of the trie after any sequence of inserts.                   *)
(***************************************************************************)

\* The sum of f over a finite set.
SumOver(S, f(_)) ==
  LET RECURSIVE go(_)
      go(R) == IF R = {} THEN 0
               ELSE LET x == CHOOSE y \in R : TRUE IN f(x) + go(R \ {x})
  IN go(S)

\* The prefixes (paths) of a set of nodes.
Paths(ns) == {n.cidr : n \in ns}

\* C5: every insert leaves the root's coverage within [0, 1] and at least
\* what it was before the insert.
C5_CoverageMonotone ==
  [][coverage(tree') \in 0..One /\ coverage(tree') >= coverage(tree)]_vars

\* Coverage strictly between 0 and 1 after several inserts.
C5_Witness ==
  coverage(tree) > 0 /\ coverage(tree) < One /\ cidrs(tree) >= 2

\* C6: inserting a prefix equal to, or nested inside, the prefix of a
\* finalized node leaves the root's cidr_count, coverage and node_count
\* unchanged and creates no node.
C6_NoOpInsert ==
  LET fin == Paths(Finalized(tree))
      before == Paths(Nodes(tree))
  IN \A c \in Cidrs :
       (\E f \in fin : IsPrefix(f, c)) =>
         LET after == insert(tree, c)
         IN /\ cidrs(after) = cidrs(tree)
            /\ coverage(after) = coverage(tree)
            /\ nodes(after) = nodes(tree)
            /\ Paths(Nodes(after)) = before

\* A finalized node that has room for nested prefixes below it, in a trie
\* with other entries.
C6_Witness ==
  /\ cidrs(tree) >= 2
  /\ \E f \in Finalized(tree) : Len(f.cidr) < AddrBits

\* C7: no non-finalized node has two finalized children; and when the
\* inserted prefixes cover exactly one block (as after inserting all of its
\* full-length prefixes, in any order), the block's node is the only finalized
\* node and has no children.
C7_FullCollapse ==
  /\ \A n \in Nodes(tree) :
       ~n.present =>
         ~(/\ is_some(n.left) /\ n.left[1].present
           /\ is_some(n.right) /\ n.right[1].present)
  /\ \A b \in Cidrs :
       requested = Range(b) =>
         /\ Paths(Finalized(tree)) = {b}
         /\ \A f \in Finalized(tree) : f.left = None /\ f.right = None

\* Exactly one block, two levels above the full-length prefixes, is covered.
C7_Witness ==
  \E b \in Cidrs :
    /\ Len(b) = AddrBits - 2
    /\ requested = Range(b)
    /\ Paths(Finalized(tree)) = {b}

\* C8: the root's coverage is the fraction of the address space inside the
\* union of the inserted prefixes, and equals the sum of 2^(-len) over the
\* finalized nodes.
C8_CoverageExact ==
  LET share(f) == One \div (2 ^ Len(f.cidr))
  IN /\ coverage(tree) = Cardinality(requested)
     /\ coverage(tree) = SumOver(Finalized(tree), share)

\* Finalized nodes at three different depths, as in tests::tree_insert.
C8_Witness ==
  /\ Cardinality({Len(p) : p \in Paths(Finalized(tree))}) >= 3
  /\ coverage(tree) = Cardinality(requested)

\* C9: at every node the cached cidr_count is the number of finalized nodes
\* of its subtree, and the root's count is the number of prefixes the
\* output listing prints.
C9_CidrCount ==
  /\ \A n \in Nodes(tree) : n.cidr_count = Cardinality(Finalized(n))
  /\ cidrs(tree) = Len(print(tree))

\* Three entries under one non-finalized root.
C9_Witness ==
  cidrs(tree) = 3 /\ Len(print(tree)) = 3

\* C10: the root's node_count is the number of nodes in the trie: the root
\* plus one node per distinct non-empty path leading to a finalized node.
C10_NodeCount ==
  /\ nodes(tree) = Cardinality(Nodes(tree))
  /\ nodes(tree) =
       1 + Cardinality({p \in Cidrs \ {<< >>} :
                          \E f \in Finalized(tree) : IsPrefix(p, f.cidr)})

\* Shared paths: fewer nodes than the finalized nodes' depths add up to.
C10_Witness ==
  LET depth(f) == Len(f.cidr)
  IN /\ cidrs(tree) >= 2
     /\ nodes(tree) < 1 + SumOver(Finalized(tree), depth)

(***************************************************************************)
(* Properties of parsing and rendering.                                    *)
(***************************************************************************)

\* C11: Cidr::parse fails (never returns a Cidr) for every malformed line: an
\* octet outside 0..255, a length outside 0..32 or missing, or a number of
\* dot-separated groups other than four.
C11_RejectsMalformed ==
  (stage \notin {"idle", "text"} /\ ~WellFormed(line)) => stage = "parse_panicked"

\* The dotted quad keeping the first n bits of a.b.c.d, the rest zero, and "/n".
Canonical(ln) ==
  LET n == ln.size[1]
      kept(j) == IF n >= j * OctetBits THEN OctetBits
                 ELSE IF n <= (j - 1) * OctetBits THEN 0
                 ELSE n - (j - 1) * OctetBits
  IN [groups |-> [j \in 1..Groups |->
                    ln.groups[j] - (ln.groups[j] % (2 ^ (OctetBits - kept(j))))],
      size |-> Some(n)]

\* C12: for every octet quadruple a.b.c.d and n in 0..32, rendering the parse
\* of "a.b.c.d/n" gives the canonical text (first n bits of a.b.c.d, the rest
\* zero, then "/n"), and parsing and rendering that text again gives the same
\* text.
C12_RoundTrip ==
  WellFormed(line) =>
    /\ stage \in {"text", "parsed", "printed", "reprinted"}
    /\ stage = "printed" => pretty = Canonical(line)
    /\ stage = "reprinted" => pretty = Canonical(line)

\* 255.170.85.1/12 was rendered as 255.160.0.0/12, and rendered again.
C12_Witness ==
  /\ stage = "reprinted"
  /\ line = [groups |-> << 255, 170, 85, 1 >>, size |-> Some(12)]
  /\ pretty = [groups |-> << 255, 160, 0, 0 >>, size |-> Some(12)]

\* C13: parse of "a.b.c.d/n" returns exactly n bits, and bit i (from 0) is
\* bit (7 - i mod 8) of octet (i div 8), most significant bit first.
C13_BitLayout ==
  (WellFormed(line) /\ stage = "parsed") =>
    /\ Len(parsed) = line.size[1]
    /\ \A i \in 0..(Len(parsed) - 1) :
         parsed[i + 1] =
           ((line.groups[(i \div 8) + 1] \div (2 ^ (7 - (i % 8)))) % 2 = 1)

\* 1.85.170.255/25 was parsed: 25 bits, bit 7 set, bit 8 clear, bit 24 set.
C13_Witness ==
  /\ stage = "parsed"
  /\ line = [groups |-> << 1, 85, 170, 255 >>, size |-> Some(25)]
  /\ Len(parsed) = 25 /\ parsed[8] /\ ~parsed[9] /\ parsed[25]

(***************************************************************************)
(* Properties of the trie's shape and of the cached candidate.             *)
(***************************************************************************)

\* C14: every finalized node has neither a left nor a right child, and no
\* finalized node is an ancestor of another finalized node.
C14_FinalizedAreLeaves ==
  \A n \in Finalized(tree) :
    /\ n.left = None /\ n.right = None
    /\ \A m \in Finalized(tree) : m.cidr # n.cidr => ~IsPrefix(n.cidr, m.cidr)

\* A finalized node just below the root next to a finalized full-length one.
C14_Witness ==
  \E n, m \in Finalized(tree) :
    Len(n.cidr) = 1 /\ Len(m.cidr) = AddrBits /\ cidrs(tree) >= 2

\* C15 as stated: in every reachable state, the freshly constructed
\* Tree::new() included, at every node best_coverage is None exactly when the
\* node is present.
C15_NoneIffFinalized ==
  \A n \in Nodes(tree) : (n.best_coverage = None) <=> n.present

\* C15, amended: once an insert has been made, at every node best_coverage is
\* None exactly when the node is present; the fresh Tree::new() is the one
\* exception, a root that is not present and has no candidate.
C15_NoneIffFinalizedAfterInsert ==
  IF requested = {}
  THEN tree = new /\ ~tree.present /\ tree.best_coverage = None
  ELSE \A n \in Nodes(tree) : (n.best_coverage = None) <=> n.present

\* Inserts made a trie holding finalized nodes (no candidate) and several
\* non-finalized ones (each with a candidate).
C15_Witness ==
  /\ requested # {}
  /\ \E n \in Nodes(tree) : n.present /\ n.best_coverage = None
  /\ \E n, m \in Nodes(tree) :
       n # m /\ ~n.present /\ ~m.present
         /\ is_some(n.best_coverage) /\ is_some(m.best_coverage)

\* C16: after at least one insert that leaves the root non-finalized, the
\* root's cached candidate names a non-finalized node of the trie with that
\* node's current coverage and cidr_count, and its cost
\* 2^(32 - len) * (1 - coverage) is <= the cost of every non-finalized node.
C16_RootCandidateMinimal ==
  (requested # {} /\ ~tree.present) =>
    /\ is_some(best_coverage(tree))
    /\ LET c == best_coverage(tree)[1]
       IN /\ \E n \in Nodes(tree) :
               ~n.present /\ n.cidr = c[3] /\ n.coverage = c[1] /\ n.cidr_count = c[2]
          /\ \A m \in Nodes(tree) :
               ~m.present => score(size(c[3]), c[1]) <= score(size(m.cidr), m.coverage)

\* The root's candidate lies two or more levels down the right branch while
\* the left branch holds non-finalized nodes too.
C16_Witness ==
  /\ ~tree.present /\ is_some(best_coverage(tree))
  /\ size(best_coverage(tree)[1][3]) >= 2
  /\ best_coverage(tree)[1][3][1]
  /\ is_some(tree.left) /\ ~tree.left[1].present

\* The options of a node in the order update_best_coverage lists them:
\* the node itself, the left child's candidate, the right child's candidate.
Options(n) ==
  flatten(<< Some(<< n.coverage, n.cidr_count, n.cidr >>),
             IF is_some(n.left) THEN n.left[1].best_coverage ELSE None,
             IF is_some(n.right) THEN n.right[1].best_coverage ELSE None >>)

\* The cost of a candidate tuple.
Cost(c) == score(size(c[3]), c[1])

\* C17: among {self, left candidate, right candidate} in that order, when
\* several share the lowest cost the last of them is selected; an earlier
\* option is kept only when its cost is strictly lower than that of every
\* later option.
C17_TieBreakLast ==
  \A n \in Nodes(tree) :
    (requested # {} /\ ~n.present) =>
      LET opts == Options(n)
      IN \E i \in 1..Len(opts) :
           /\ n.best_coverage = Some(opts[i])
           /\ \A j \in 1..Len(opts) : Cost(opts[i]) <= Cost(opts[j])
           /\ \A j \in (i + 1)..Len(opts) : Cost(opts[i]) < Cost(opts[j])

\* A node whose left and right candidates tie at the lowest cost, the right
\* one cached.
C17_Witness ==
  \E n \in Nodes(tree) :
    /\ ~n.present /\ Len(Options(n)) = 3
    /\ Cost(Options(n)[2]) = Cost(Options(n)[3])
    /\ Cost(Options(n)[2]) < Cost(Options(n)[1])
    /\ n.best_coverage = Some(Options(n)[3])

(***************************************************************************)
(* Properties of the whole run.                                            *)
(***************************************************************************)

C19_CoveredIffRequested ==
  LET fin == Paths(Finalized(tree))
  IN \A a \in Addrs :
       /\ a \in requested <=> \E f \in fin : IsPrefix(f, a)
       /\ Cardinality({f \in fin : IsPrefix(f, a)}) <= 1

\* The loop re-inserted candidates and stopped with part of the space
\* uncovered and several finalized nodes.
C19_Witness ==
  /\ pc = "done" /\ iters >= 1
  /\ requested # {} /\ requested # Addrs
  /\ cidrs(tree) >= 2

\* The trie of a set of addresses: each inserted as a full-length prefix, in
\* one fixed order.
RECURSIVE TrieOf(_, _)
TrieOf(t, S) ==
  IF S = {} THEN t
  ELSE LET a == CHOOSE x \in S : TRUE
       IN TrieOf(insert(t, a), S \ {a})

\* C20: the trie does not depend on the order of the inserts nor on repeats:
\* whatever sequence of prefixes was inserted, the trie (nodes, flags,
\* cidr_count, node_count, coverage and cached candidate at every node) is the
\* one determined by the set of addresses the prefixes cover, so sequences
\* that are permutations of each other, with or without repeats, give
\* identical tries.
C20_OrderIndependent == tree = TrieOf(new, requested)

\* A trie holding a finalized node above full length and a cached root
\* candidate, built from at least two prefixes.
C20_Witness ==
  /\ cidrs(tree) >= 2
  /\ is_some(best_coverage(tree))
  /\ \E f \in Finalized(tree) : Len(f.cidr) < AddrBits

====
